---- MODULE Spec2Model ----
(***************************************************************************)
(* KeyMap (src/descriptor/key_map.rs): an ordered map from                 *)
(* DescriptorPublicKey to DescriptorSecretKey with insert / extend / get   *)
(* and the GetKey resolution algorithm (get_key).                          *)
(*                                                                         *)
(* Cryptography is symbolic.  A secret scalar is the derivation path that  *)
(* leads to it from one seed, a curve point is the scalar wrapped as       *)
(* [G |-> scalar], a fingerprint is the wrapped point.  Both wrappings are *)
(* injective (no hash or curve collisions).                                *)
(***************************************************************************)
EXTENDS Naturals, Sequences, FiniteSets, TLC

VARIABLES
    map,    \* KeyMap.map : DescriptorPublicKey -> DescriptorSecretKey
    op,     \* the last completed call: "new", "insert", "extend", "get_key"
    arg,    \* its argument (secret key, sequence of pairs, key request)
    ret,    \* its return value
    old     \* KeyMap.map when that call was entered

vars == <<map, op, arg, ret, old>>

\* Bounds of the model.
MaxEntries == 2
MaxPairs == 2

----------------------------------------------------------------------------
\* Option / Result values: <<>> is None / Err, <<x>> is Some(x) / Ok(x).
None == <<>>
Some(x) == <<x>>
IsSome(o) == Len(o) > 0
Unwrap(o) == o[1]

\* bip32::ChildNumber
Normal(i) == [hardened |-> FALSE, index |-> i]
Hardened(i) == [hardened |-> TRUE, index |-> i]
is_normal(c) == ~c.hardened

N0 == Normal(0)
N1 == Normal(1)
H0 == Hardened(0)
H1 == Hardened(1)

\* NetworkKind
Networks == {"Main", "Test"}

\* secp256k1::PublicKey::from_secret_key
Point(scalar) == [G |-> scalar]

\* bitcoin::PrivateKey::public_key : keeps the compressed flag, drops the network
public_key(sk) == [compressed |-> sk.compressed, inner |-> Point(sk.inner)]

\* bitcoin::PrivateKey::new(key, network) : always compressed
PrivateKeyNew(scalar, network) ==
    [compressed |-> TRUE, network |-> network, inner |-> scalar]

\* bip32::Xpriv::to_priv
to_priv(xkey) == PrivateKeyNew(xkey.private_key, xkey.network)

\* bip32::Xpub::from_priv
XpubFromPriv(xkey) ==
    [network |-> xkey.network, public_key |-> Point(xkey.private_key)]

\* bip32::Xpriv::fingerprint : a hash of the public key (network is not hashed)
fingerprint(xkey) == [id |-> Point(xkey.private_key)]

\* The child steps at which the HD engine reports a derivation error.
InvalidChildren == {N0, H1}

\* bip32::Xpriv::derive_priv : Err (None) as soon as one step fails
RECURSIVE derive_priv(_, _)
derive_priv(xkey, path) ==
    IF path = <<>> THEN Some(xkey)
    ELSE IF Head(path) \in InvalidChildren THEN None
    ELSE derive_priv([network |-> xkey.network,
                      private_key |-> Append(xkey.private_key, Head(path))],
                     Tail(path))

\* KeyRequest
Pubkey(pk) == [kind |-> "Pubkey", pk |-> pk]
Bip32(fp, path) == [kind |-> "Bip32", fp |-> fp, path |-> path]

\* impl GetKey for bip32::Xpriv : [err, val]
XprivGetKey(xkey, req) ==
    IF req.kind = "Pubkey" THEN [err |-> TRUE, val |-> None]
    ELSE IF fingerprint(xkey) = req.fp
         THEN LET k == derive_priv(xkey, req.path)
              IN  IF IsSome(k) THEN [err |-> FALSE, val |-> Some(to_priv(Unwrap(k)))]
                  ELSE [err |-> TRUE, val |-> None]
         ELSE [err |-> FALSE, val |-> None]

----------------------------------------------------------------------------
\* DescriptorSecretKey
SingleSecret(origin, key) == [type |-> "Single", origin |-> origin, key |-> key]
XPrv(origin, xkey, path, wildcard) ==
    [type |-> "XPrv", origin |-> origin, xkey |-> xkey,
     derivation_path |-> path, wildcard |-> wildcard]
MultiXPrv(origin, xkey, paths, wildcard) ==
    [type |-> "MultiXPrv", origin |-> origin, xkey |-> xkey,
     derivation_paths |-> paths, wildcard |-> wildcard]

\* DescriptorPublicKey
FullKey(pk) == [form |-> "FullKey", compressed |-> pk.compressed, inner |-> pk.inner]
XOnly(point) == [form |-> "XOnly", compressed |-> TRUE, inner |-> point]
SinglePub(origin, key) == [type |-> "Single", origin |-> origin, key |-> key]
XPub(origin, xkey, path, wildcard) ==
    [type |-> "XPub", origin |-> origin, xkey |-> xkey,
     derivation_path |-> path, wildcard |-> wildcard]
MultiXPub(origin, xkey, paths, wildcard) ==
    [type |-> "MultiXPub", origin |-> origin, xkey |-> xkey,
     derivation_paths |-> paths, wildcard |-> wildcard]

\* Number of trailing unhardened steps of a path.
RECURSIVE TrailingNormal(_)
TrailingNormal(path) ==
    IF path = <<>> \/ ~is_normal(path[Len(path)]) THEN 0
    ELSE 1 + TrailingNormal(SubSeq(path, 1, Len(path) - 1))

HardenedPrefix(path) == SubSeq(path, 1, Len(path) - TrailingNormal(path))
UnhardenedSuffix(path) == SubSeq(path, Len(path) - TrailingNormal(path) + 1, Len(path))

\* Origin of the public key: the secret's origin extended by the hardened steps.
PublicOrigin(origin, xkey, hardened_path) ==
    IF IsSome(origin)
    THEN Some([fp |-> Unwrap(origin).fp, path |-> Unwrap(origin).path \o hardened_path])
    ELSE IF hardened_path = <<>> THEN None
    ELSE Some([fp |-> fingerprint(xkey), path |-> hardened_path])

\* DescriptorXKey<Xpriv>::to_public
XPrvToPublic(sk) ==
    LET hardened_path == HardenedPrefix(sk.derivation_path)
        xprv == derive_priv(sk.xkey, hardened_path)
    IN  IF ~IsSome(xprv) THEN None
        ELSE Some(XPub(PublicOrigin(sk.origin, sk.xkey, hardened_path),
                       XpubFromPriv(Unwrap(xprv)),
                       UnhardenedSuffix(sk.derivation_path),
                       sk.wildcard))

\* Length of the prefix shared by all the paths of a multi-path key.
RECURSIVE SharedLen(_, _)
SharedLen(paths, n) ==
    IF /\ n < Len(paths[1])
       /\ \A i \in 2..Len(paths) :
            n < Len(paths[i]) /\ paths[i][n + 1] = paths[1][n + 1]
    THEN SharedLen(paths, n + 1)
    ELSE n

\* DescriptorMultiXKey<Xpriv>::to_public
MultiXPrvToPublic(sk) ==
    LET paths == sk.derivation_paths
        n == SharedLen(paths, 0)
        shared_prefix == SubSeq(paths[1], 1, n)
        suffix(i) == SubSeq(paths[i], n + 1, Len(paths[i]))
        hardened_path == HardenedPrefix(shared_prefix)
        unhardened_path == UnhardenedSuffix(shared_prefix)
        xprv == derive_priv(sk.xkey, hardened_path)
    IN  IF \E i \in 1..Len(paths) : \E j \in 1..Len(suffix(i)) : ~is_normal(suffix(i)[j])
        THEN None
        ELSE IF ~IsSome(xprv) THEN None
        ELSE Some(MultiXPub(PublicOrigin(sk.origin, sk.xkey, hardened_path),
                            XpubFromPriv(Unwrap(xprv)),
                            [i \in 1..Len(paths) |-> unhardened_path \o suffix(i)],
                            sk.wildcard))

\* DescriptorSecretKey::to_public
to_public(sk) ==
    CASE sk.type = "Single" ->
            Some(SinglePub(sk.origin, FullKey(public_key(sk.key))))
      [] sk.type = "XPrv" -> XPrvToPublic(sk)
      [] sk.type = "MultiXPrv" -> MultiXPrvToPublic(sk)

----------------------------------------------------------------------------
\* The derived total order of DescriptorPublicKey: each key is laid out as its
\* fields in declaration order, each field a sequence of numbers.
BoolNum(b) == IF b THEN 1 ELSE 0
NetNum(n) == IF n = "Main" THEN 0 ELSE 1
WildcardNum(w) == IF w = "None" THEN 0 ELSE IF w = "Unhardened" THEN 1 ELSE 2

RECURSIVE PathEnc(_)
PathEnc(path) ==
    IF path = <<>> THEN <<>>
    ELSE <<BoolNum(Head(path).hardened), Head(path).index>> \o PathEnc(Tail(path))

PointEnc(p) == PathEnc(p.G)

OriginComps(o) ==
    IF IsSome(o)
    THEN << <<1>>, PointEnc(Unwrap(o).fp.id), PathEnc(Unwrap(o).path) >>
    ELSE << <<0>>, <<>>, <<>> >>

XpubComps(x) ==
    << <<NetNum(x.network)>>, <<Len(x.public_key.G)>>, PointEnc(x.public_key) >>

RECURSIVE PathsComps(_)
PathsComps(paths) ==
    IF paths = <<>> THEN << <<0>> >>
    ELSE << <<1>>, PathEnc(Head(paths)) >> \o PathsComps(Tail(paths))

KeyComps(k) ==
    CASE k.type = "Single" ->
            << <<0>> >> \o OriginComps(k.origin) \o
            << <<IF k.key.form = "FullKey" THEN 0 ELSE 1>>,
               <<BoolNum(k.key.compressed)>>, PointEnc(k.key.inner) >>
      [] k.type = "XPub" ->
            << <<1>> >> \o OriginComps(k.origin) \o XpubComps(k.xkey) \o
            << PathEnc(k.derivation_path), <<WildcardNum(k.wildcard)>> >>
      [] k.type = "MultiXPub" ->
            << <<2>> >> \o OriginComps(k.origin) \o XpubComps(k.xkey) \o
            PathsComps(k.derivation_paths) \o << <<WildcardNum(k.wildcard)>> >>

\* Lexicographic order of number sequences (a proper prefix is smaller).
RECURSIVE SeqLess(_, _)
SeqLess(a, b) ==
    IF b = <<>> THEN FALSE
    ELSE IF a = <<>> THEN TRUE
    ELSE IF Head(a) # Head(b) THEN Head(a) < Head(b)
    ELSE SeqLess(Tail(a), Tail(b))

RECURSIVE CompsLess(_, _)
CompsLess(A, B) ==
    IF B = <<>> THEN FALSE
    ELSE IF A = <<>> THEN TRUE
    ELSE IF Head(A) # Head(B) THEN SeqLess(Head(A), Head(B))
    ELSE CompsLess(Tail(A), Tail(B))

\* impl Ord for DescriptorPublicKey
KeyLess(a, b) == CompsLess(KeyComps(a), KeyComps(b))

\* BTreeMap::iter : the (key, value) pairs in ascending key order
RECURSIVE SortedKeys(_)
SortedKeys(S) ==
    IF S = {} THEN <<>>
    ELSE LET least == CHOOSE k \in S : \A j \in S \ {k} : KeyLess(k, j)
         IN  <<least>> \o SortedKeys(S \ {least})

iter(m) ==
    LET keys == SortedKeys(DOMAIN m)
    IN  [i \in 1..Len(keys) |-> [k |-> keys[i], v |-> m[keys[i]]]]

----------------------------------------------------------------------------
\* What the find_map closure of get_key returns for one entry: None, Some(key),
\* or the unreachable! panic.
NotFound == [tag |-> "None"]
Found(key) == [tag |-> "Some", key |-> key]
Panic == [tag |-> "Panic"]

\* SingleArm with the request compared on the curve point alone.
SingleArmPointOnly(k, v, req) ==
    IF req.kind = "Pubkey"
    THEN IF k.key.form = "FullKey"
         THEN IF k.key.inner = req.pk.inner
              THEN IF v.type = "Single" THEN Found(v.key) ELSE Panic
              ELSE NotFound
         ELSE NotFound
    ELSE NotFound

\* get_key, arm DescriptorPublicKey::Single
SingleArm(k, v, req) ==
    IF req.kind = "Pubkey"
    THEN IF k.key.form = "FullKey"
         THEN IF [compressed |-> k.key.compressed, inner |-> k.key.inner] = req.pk
              THEN IF v.type = "Single" THEN Found(v.key) ELSE Panic
              ELSE NotFound
         ELSE NotFound
    ELSE NotFound

\* XPubArm with the key-source request derived along the stored path
\* instead of the requested one.
XPubArmStoredPath(k, v, req) ==
    LET pk == k.xkey.public_key
    IN  IF req.kind = "Pubkey"
        THEN IF pk = req.pk.inner
             THEN IF v.type = "XPrv"
                  THEN LET child == derive_priv(v.xkey, v.derivation_path)
                       IN  IF IsSome(child)
                           THEN Found(PrivateKeyNew(Unwrap(child).private_key,
                                                    v.xkey.network))
                           ELSE NotFound
                  ELSE Panic
             ELSE NotFound
        ELSE IF v.type = "XPrv"
             THEN LET r == XprivGetKey(v.xkey, Bip32(req.fp, v.derivation_path))
                  IN  IF ~r.err /\ IsSome(r.val) THEN Found(Unwrap(r.val))
                      ELSE NotFound
             ELSE Panic

\* get_key, arm DescriptorPublicKey::XPub
XPubArm(k, v, req) ==
    LET pk == k.xkey.public_key
    IN  IF req.kind = "Pubkey"
        THEN IF pk = req.pk.inner
             THEN IF v.type = "XPrv"
                  THEN LET child == derive_priv(v.xkey, v.derivation_path)
                       IN  IF IsSome(child)
                           THEN Found(PrivateKeyNew(Unwrap(child).private_key,
                                                    v.xkey.network))
                           ELSE NotFound
                  ELSE Panic
             ELSE NotFound
        ELSE IF v.type = "XPrv"
             THEN LET r == XprivGetKey(v.xkey, req)
                  IN  IF ~r.err /\ IsSome(r.val) THEN Found(Unwrap(r.val))
                      ELSE NotFound
             ELSE Panic

\* MultiXPubArm with the secret matched against the XPrv variant.
MultiXPubArmWrongVariant(k, v, req) ==
    LET pk == k.xkey.public_key
    IN  IF req.kind = "Pubkey"
        THEN IF pk = req.pk.inner
             THEN IF v.type = "XPrv" THEN Found(to_priv(v.xkey)) ELSE Panic
             ELSE NotFound
        ELSE IF v.type = "XPrv"
             THEN LET r == XprivGetKey(v.xkey, req)
                  IN  IF ~r.err /\ IsSome(r.val) THEN Found(Unwrap(r.val))
                      ELSE NotFound
             ELSE Panic

\* get_key, arm DescriptorPublicKey::MultiXPub
MultiXPubArm(k, v, req) ==
    LET pk == k.xkey.public_key
    IN  IF req.kind = "Pubkey"
        THEN IF pk = req.pk.inner
             THEN IF v.type = "MultiXPrv" THEN Found(to_priv(v.xkey)) ELSE Panic
             ELSE NotFound
        ELSE IF v.type = "MultiXPrv"
             THEN LET r == XprivGetKey(v.xkey, req)
                  IN  IF ~r.err /\ IsSome(r.val) THEN Found(Unwrap(r.val))
                      ELSE NotFound
             ELSE Panic

\* The closure passed to find_map.
Closure(e, req) ==
    CASE e.k.type = "Single" -> SingleArm(e.k, e.v, req)
      [] e.k.type = "XPub" -> XPubArm(e.k, e.v, req)
      [] e.k.type = "MultiXPub" -> MultiXPubArm(e.k, e.v, req)

\* Whether a stored public key structurally matches a request.
StructuralMatch(k, req) ==
    IF req.kind = "Pubkey"
    THEN CASE k.type = "Single" ->
                /\ k.key.form = "FullKey"
                /\ [compressed |-> k.key.compressed, inner |-> k.key.inner] = req.pk
           [] k.type \in {"XPub", "MultiXPub"} -> k.xkey.public_key = req.pk.inner
    ELSE k.type \in {"XPub", "MultiXPub"}

\* find_map that ends the scan at the first structural match.
RECURSIVE FindMapFirstMatch(_, _)
FindMapFirstMatch(entries, req) ==
    IF entries = <<>> THEN NotFound
    ELSE IF StructuralMatch(Head(entries).k, req) THEN Closure(Head(entries), req)
    ELSE FindMapFirstMatch(Tail(entries), req)

\* Iterator::find_map : the first result that is not None
RECURSIVE find_map(_, _)
find_map(entries, req) ==
    IF entries = <<>> THEN NotFound
    ELSE LET r == Closure(Head(entries), req)
         IN  IF r # NotFound THEN r ELSE find_map(Tail(entries), req)

\* KeyMap::get_key
get_key(m, req) == find_map(iter(m), req)

----------------------------------------------------------------------------
\* BTreeMap::insert : stores v under k, replacing any value already there
Put(m, k, v) == [x \in DOMAIN m \cup {k} |-> IF x = k THEN v ELSE m[x]]

Err == [tag |-> "Err"]
Ok(pk) == [tag |-> "Ok", pk |-> pk]

\* insert that replaces the secret already stored.
InsertOverwrite(m, sk) ==
    LET pk == to_public(sk)
    IN  IF ~IsSome(pk) THEN [map |-> m, ret |-> Err]
        ELSE [map |-> Put(m, Unwrap(pk), sk), ret |-> Ok(Unwrap(pk))]

\* insert with the contains_key test inverted.
InsertInverted(m, sk) ==
    LET pk == to_public(sk)
    IN  IF ~IsSome(pk) THEN [map |-> m, ret |-> Err]
        ELSE [map |-> IF Unwrap(pk) \in DOMAIN m THEN Put(m, Unwrap(pk), sk) ELSE m,
              ret |-> Ok(Unwrap(pk))]

\* insert that has taken the map out of self before the early return.
InsertTake(m, sk) ==
    LET pk == to_public(sk)
    IN  IF ~IsSome(pk) THEN [map |-> <<>>, ret |-> Err]
        ELSE [map |-> IF Unwrap(pk) \in DOMAIN m THEN m ELSE Put(m, Unwrap(pk), sk),
              ret |-> Ok(Unwrap(pk))]

\* KeyMap::insert : [map, ret]
insert(m, sk) ==
    LET pk == to_public(sk)
    IN  IF ~IsSome(pk) THEN [map |-> m, ret |-> Err]
        ELSE [map |-> IF Unwrap(pk) \in DOMAIN m THEN m ELSE Put(m, Unwrap(pk), sk),
              ret |-> Ok(Unwrap(pk))]

\* KeyMap::get
get(m, pk) == IF pk \in DOMAIN m THEN Some(m[pk]) ELSE None

\* KeyMap::len
len(m) == Cardinality(DOMAIN m)

\* impl Extend for KeyMap : BTreeMap::extend, one BTreeMap::insert per pair
RECURSIVE extend(_, _)
extend(m, pairs) ==
    IF pairs = <<>> THEN m
    ELSE extend(Put(m, Head(pairs).k, Head(pairs).v), Tail(pairs))

----------------------------------------------------------------------------
\* The inputs the calls are tried with.

\* Extended private keys: the master (on either network) and its child at H0.
Master(net) == [network |-> net, private_key |-> <<>>]
ChildKey == [network |-> "Main", private_key |-> <<H0>>]

\* Key origin "[fingerprint(master)/H0]"
ChildOrigin == Some([fp |-> fingerprint(Master("Main")), path |-> <<H0>>])

PrivateKey(compressed, net, scalar) ==
    [compressed |-> compressed, network |-> net, inner |-> scalar]

SingleSecrets ==
    { SingleSecret(o, PrivateKey(TRUE, n, <<>>)) :
        o \in {None, ChildOrigin}, n \in Networks }
    \cup { SingleSecret(None, PrivateKey(FALSE, "Main", <<>>)),
           SingleSecret(None, PrivateKey(TRUE, "Main", <<H0>>)) }

XPrvSecrets ==
    { XPrv(None, Master("Main"), p, "None") :
        p \in {<<>>, <<H0>>, <<N0>>, <<N1>>, <<H1>>, <<H0, N1>>} }
    \cup { XPrv(None, Master("Test"), <<>>, "None"),
           XPrv(None, Master("Main"), <<N1>>, "Unhardened"),
           XPrv(ChildOrigin, ChildKey, <<>>, "None"),
           XPrv(ChildOrigin, ChildKey, <<N1>>, "None") }

MultiXPrvSecrets ==
    { MultiXPrv(None, Master("Main"), ps, "None") :
        ps \in { << <<N0>>, <<N1>> >>,
                 << <<H0, N0>>, <<H0, N1>> >>,
                 << <<H0>>, <<N1>> >> } }

Secrets == SingleSecrets \cup XPrvSecrets \cup MultiXPrvSecrets

Pair(k, v) == [k |-> k, v |-> v]

\* Pairs handed to extend: the caller chooses both halves.
ExtendPairs ==
    LET s1 == SingleSecret(None, PrivateKey(TRUE, "Main", <<>>))
        s2 == SingleSecret(None, PrivateKey(TRUE, "Test", <<>>))
        x0 == XPrv(None, Master("Main"), <<N0>>, "None")
    IN  { Pair(Unwrap(to_public(s1)), s1),
          Pair(Unwrap(to_public(s1)), s2),
          Pair(Unwrap(to_public(x0)), s1),
          Pair(SinglePub(None, XOnly(Point(<<>>))), s1) }

RECURSIVE SeqsUpTo(_, _)
SeqsUpTo(S, n) ==
    IF n = 0 THEN {<<>>}
    ELSE LET shorter == SeqsUpTo(S, n - 1)
         IN  shorter \cup { Append(q, x) : q \in shorter, x \in S }

ExtendInputs == SeqsUpTo(ExtendPairs, MaxPairs)

Requests ==
    { Pubkey([compressed |-> TRUE, inner |-> Point(s)]) :
        s \in {<<>>, <<H0>>, <<N1>>, <<H0, N1>>} }
    \cup { Pubkey([compressed |-> FALSE, inner |-> Point(<<>>)]) }
    \cup { Bip32(fingerprint(x), p) :
            x \in {Master("Main"), ChildKey},
            p \in {<<>>, <<H0>>, <<N0>>, <<N1>>} }

----------------------------------------------------------------------------
\* KeyMap::new
Init ==
    /\ map = <<>>
    /\ old = <<>>
    /\ op = "new"
    /\ arg = <<>>
    /\ ret = <<>>

\* keymap.insert(secp, sk)
Insert(sk) ==
    LET r == insert(map, sk)
    IN  /\ len(r.map) <= MaxEntries
        /\ old' = map
        /\ map' = r.map
        /\ op' = "insert"
        /\ arg' = sk
        /\ ret' = r.ret

\* keymap.extend(pairs)
Extend(pairs) ==
    LET m == extend(map, pairs)
    IN  /\ len(m) <= MaxEntries
        /\ old' = map
        /\ map' = m
        /\ op' = "extend"
        /\ arg' = pairs
        /\ ret' = <<>>

\* keymap.get_key(request, secp)
GetKey(req) ==
    /\ old' = map
    /\ map' = map
    /\ op' = "get_key"
    /\ arg' = req
    /\ ret' = get_key(map, req)

Next ==
    \/ \E sk \in Secrets : Insert(sk)
    \/ \E pairs \in ExtendInputs : Extend(pairs)
    \/ \E req \in Requests : GetKey(req)

Spec == Init /\ [][Next]_vars

\* The map as the descriptor parser builds it: by insert alone.
NextInsert ==
    \/ \E sk \in Secrets : Insert(sk)
    \/ \E req \in Requests : GetKey(req)

SpecInsert == Init /\ [][NextInsert]_vars

----------------------------------------------------------------------------
\* Properties.

Entries == iter(map)

\* Invariant I1 for one pair and for a map.
SameVariant(k, v) ==
    \/ k.type = "Single" /\ v.type = "Single"
    \/ k.type = "XPub" /\ v.type = "XPrv"
    \/ k.type = "MultiXPub" /\ v.type = "MultiXPrv"

I1(m) == \A k \in DOMAIN m : SameVariant(k, m[k])

\* C1: insert of a secret whose public key is already present leaves the map
\* as it was (the stored secret is retained, len is unchanged) and returns
\* that public key, also when the secret differs from the stored one.
C1FirstWriteWins ==
    (op = "insert" /\ IsSome(to_public(arg))
        /\ Unwrap(to_public(arg)) \in DOMAIN old)
    => /\ map = old
       /\ len(map) = len(old)
       /\ get(map, Unwrap(to_public(arg))) = Some(old[Unwrap(to_public(arg))])
       /\ ret = Ok(Unwrap(to_public(arg)))

C1Witness ==
    /\ op = "insert"
    /\ IsSome(to_public(arg))
    /\ Unwrap(to_public(arg)) \in DOMAIN old
    /\ old[Unwrap(to_public(arg))] # arg
    /\ ret.tag = "Ok"

\* C2 as stated: after insert(s) returns p, get(p) is Some(s).
C2RoundTripOriginal ==
    (op = "insert" /\ ret.tag = "Ok") => get(map, ret.pk) = Some(arg)

\* C2 amended: after insert(s) returns p, get(p) is Some(s) when p was not
\* stored before the call, and the secret already stored under p otherwise.
C2RoundTrip ==
    (op = "insert" /\ ret.tag = "Ok")
    => get(map, ret.pk) = IF ret.pk \in DOMAIN old THEN Some(old[ret.pk]) ELSE Some(arg)

C2Witness ==
    /\ op = "insert"
    /\ ret.tag = "Ok"
    /\ ret.pk \notin DOMAIN old
    /\ old # <<>>
    /\ get(map, ret.pk) = Some(arg)

\* The map extend would produce with first-write-wins applied pair by pair.
RECURSIVE FirstWriteWins(_, _)
FirstWriteWins(m, pairs) ==
    IF pairs = <<>> THEN m
    ELSE FirstWriteWins(IF Head(pairs).k \in DOMAIN m THEN m
                        ELSE Put(m, Head(pairs).k, Head(pairs).v),
                        Tail(pairs))

\* C3: extend is first-write-wins per pair in input order, so it changes no
\* entry that the map already holds.
C3ExtendFirstWriteWins ==
    op = "extend"
    => /\ map = FirstWriteWins(old, arg)
       /\ \A k \in DOMAIN old : k \in DOMAIN map /\ map[k] = old[k]

\* An extended entry that structurally matches a by-public-key request, is the
\* first entry to match it, and from whose secret the derivation fails.
FailedFirstMatch(i) ==
    /\ arg.kind = "Pubkey"
    /\ Entries[i].k.type = "XPub"
    /\ Entries[i].v.type = "XPrv"
    /\ StructuralMatch(Entries[i].k, arg)
    /\ ~IsSome(derive_priv(Entries[i].v.xkey, Entries[i].v.derivation_path))
    /\ \A j \in 1..(i - 1) : ~StructuralMatch(Entries[j].k, arg)

WithFingerprint(fp) ==
    { i \in 1..Len(Entries) :
        /\ Entries[i].v.type \in {"XPrv", "MultiXPrv"}
        /\ fingerprint(Entries[i].v.xkey) = fp }

\* C5 as stated: with an extended secret of key M stored, the request
\* (fingerprint(M), D) resolves to exactly the private key of M derived along D.
C5DerivationEquivalenceOriginal ==
    (op = "get_key" /\ arg.kind = "Bip32")
    => \A k \in DOMAIN map :
         (/\ map[k].type = "XPrv"
          /\ fingerprint(map[k].xkey) = arg.fp
          /\ IsSome(derive_priv(map[k].xkey, arg.path)))
         => ret = Found(to_priv(Unwrap(derive_priv(map[k].xkey, arg.path))))

\* C5 amended: the request resolves to the private key derived along D from
\* the first stored extended key with fingerprint F; it has the secret scalar
\* of M derived along D and the network tag of that first key.
C5DerivationEquivalence ==
    (op = "get_key" /\ arg.kind = "Bip32")
    => \A k \in DOMAIN map :
         (/\ map[k].type = "XPrv"
          /\ fingerprint(map[k].xkey) = arg.fp
          /\ IsSome(derive_priv(map[k].xkey, arg.path)))
         => \E i \in WithFingerprint(arg.fp) :
              /\ \A j \in WithFingerprint(arg.fp) : i <= j
              /\ ret = Found(to_priv(Unwrap(derive_priv(Entries[i].v.xkey, arg.path))))
              /\ ret.key.inner = Unwrap(derive_priv(map[k].xkey, arg.path)).private_key
              /\ ret.key.network = Entries[i].v.xkey.network

C5Witness ==
    /\ op = "get_key"
    /\ arg.kind = "Bip32"
    /\ arg.path # <<>>
    /\ ret.tag = "Some"
    /\ \E k \in DOMAIN map :
         /\ map[k].type = "XPrv"
         /\ fingerprint(map[k].xkey) = arg.fp
         /\ map[k].derivation_path = arg.path

\* C6: with one wildcard-free extended secret (M, D) inserted, the request for
\* the public key of M derived along D resolves to exactly that derived key.
C6ByPublicKeyExtended ==
    (op = "get_key" /\ arg.kind = "Pubkey" /\ len(map) = 1)
    => \A k \in DOMAIN map :
         (/\ map[k].type = "XPrv"
          /\ map[k].wildcard = "None"
          /\ IsSome(derive_priv(map[k].xkey, map[k].derivation_path))
          /\ arg.pk = public_key(to_priv(Unwrap(
                        derive_priv(map[k].xkey, map[k].derivation_path)))))
         => ret = Found(to_priv(Unwrap(
                        derive_priv(map[k].xkey, map[k].derivation_path))))

\* The positions of the Single full-key entries whose public key is pk.
SinglesWith(pk) ==
    { i \in 1..Len(Entries) :
        /\ Entries[i].k.type = "Single"
        /\ Entries[i].k.key.form = "FullKey"
        /\ [compressed |-> Entries[i].k.key.compressed,
            inner |-> Entries[i].k.key.inner] = pk }

\* C7 as stated: with a Single secret s of public key p stored, whatever else
\* the map holds, the request for p resolves to exactly the private key of s.
C7SingleByKeyBytesOriginal ==
    (op = "get_key" /\ arg.kind = "Pubkey")
    => \A k \in DOMAIN map :
         (map[k].type = "Single" /\ public_key(map[k].key) = arg.pk)
         => ret = Found(map[k].key)

\* C7 amended: the request for p resolves to the private key of the first
\* stored Single entry of public key p; it has the secret scalar and the
\* compressed flag of s, and is the key of s itself when no other stored
\* Single secret of public key p carries another network tag.
C7SingleByKeyBytes ==
    (op = "get_key" /\ arg.kind = "Pubkey")
    => \A k \in DOMAIN map :
         (map[k].type = "Single" /\ public_key(map[k].key) = arg.pk)
         => /\ \E i \in SinglesWith(arg.pk) :
                 /\ \A j \in SinglesWith(arg.pk) : i <= j
                 /\ ret = Found(Entries[i].v.key)
            /\ ret.tag = "Some"
            /\ ret.key.inner = map[k].key.inner
            /\ ret.key.compressed = map[k].key.compressed
            /\ (\A i \in SinglesWith(arg.pk) :
                    Entries[i].v.key.network = map[k].key.network)
               => ret = Found(map[k].key)

C7Witness ==
    /\ op = "get_key"
    /\ arg.kind = "Pubkey"
    /\ \E k \in DOMAIN map :
         /\ map[k].type = "Single"
         /\ public_key(map[k].key) = arg.pk
         /\ ret = Found(map[k].key)
    /\ \E k \in DOMAIN map :
         /\ k.type \in {"XPub", "MultiXPub"}
         /\ k.xkey.public_key = arg.pk.inner

\* C8: an insert whose secret has no public key returns the error and leaves
\* the map exactly as it was.
C8InsertAtomic ==
    (op = "insert" /\ ~IsSome(to_public(arg)))
    => /\ ret = Err
       /\ map = old
       /\ len(map) = len(old)

C8Witness ==
    /\ op = "insert"
    /\ ret = Err
    /\ old # <<>>
    /\ map = old

AllSameVariant(pairs) == \A i \in 1..Len(pairs) : SameVariant(pairs[i].k, pairs[i].v)

C10Soundness ==
    (op = "get_key" /\ arg.kind = "Pubkey" /\ ret.tag = "Some")
    => public_key(ret.key).inner = arg.pk.inner

====
